---- MODULE Spec2Model ----
(***************************************************************************)
(* Model of src/backend/main.py: the chatbot webhook.                      *)
(*                                                                         *)
(* One HTTP endpoint (messages) hands an activity to on_message_activity,  *)
(* which dispatches to the upload branch, the agent-chat branch or the     *)
(* greeting branch.  State that survives a request: the agent_chat global, *)
(* the MemoryStorage behind ConversationState, and the temp files on disk. *)
(*                                                                         *)
(* Text is a sequence of string pieces: an f-string or a join is the       *)
(* concatenation of its pieces, so a formatted reply can be compared with  *)
(* what it was built from.  Python's None is the string "None" where the   *)
(* value is a string, and the empty sequence where it is a list.           *)
(*                                                                         *)
(* Environment assumptions (vendor code that is not in src/):              *)
(*  - turn_context.send_activity delivers and does not raise;              *)
(*  - requests are handled one at a time (no two turns interleave);        *)
(*  - AgentGroupChat.invoke runs one agent response per iteration, at most *)
(*    termination_strategy.maximum_iterations of them, and                 *)
(*    DefaultTerminationStrategy itself never asks to stop early;          *)
(*  - MemoryStorage.read may hand out the stored object itself or a copy   *)
(*    of it (read_aliases): the code does not say and both are modelled.   *)
(***************************************************************************)
EXTENDS Integers, Sequences, FiniteSets, TLC

VARIABLES
    startup,      \* the startup event: "pending", then "done" or "failed"
    agent_chat,   \* the global agent_chat: NoChat or the group chat
    read_aliases, \* MemoryStorage.read returns the stored dict itself
    memory,       \* MemoryStorage: conversation id -> stored conversation_data
    tmp_files,    \* number of temp files currently on disk
    uploaded,     \* history: text of an upload no text message has followed yet
    consumed,     \* history: what the agent branch did since the last upload
    last          \* observation of the most recent request

vars == <<startup, agent_chat, read_aliases, memory, tmp_files,
          uploaded, consumed, last>>

None == "None"

(* ------------------------------ bounds -------------------------------- *)

\* responses the agents would give if asked again and again
MaxStream == 5
\* temp files the disk may accumulate before further leaking uploads are cut
MaxTmpFiles == 1
\* members listed in one conversationUpdate
MaxMembers == 2

(* ----------------------------- constants ------------------------------ *)

maximum_iterations == 4
HTTP_OK == 200
HTTP_ERROR == 500

PDF == "application/pdf"
DOCX == "application/vnd.openxmlformats-officedocument.wordprocessingml.document"
TXT == "text/plain"

BotId == "bot"
UserId == "user"

Raises == "<raises>"

(* ------------------------- text extraction ---------------------------- *)

\* What each extractor does with the downloaded bytes: a text or an exception.
extract_text_from_pdf(bytes) == bytes.pdf

extract_text_from_docx(bytes) == bytes.docx

extract_text_from_txt(bytes) == bytes.txt

SuffixSwapped(content_type) ==
    CASE content_type = PDF -> ".docx"
      [] content_type = DOCX -> ".pdf"
      [] content_type = TXT -> ".txt"
      [] OTHER -> None

\* the dispatch table of download_and_extract_text
Suffix(content_type) ==
    CASE content_type = PDF -> ".pdf"
      [] content_type = DOCX -> ".docx"
      [] content_type = TXT -> ".txt"
      [] OTHER -> None

Extractor(suffix) ==
    CASE suffix = ".pdf" -> "extract_text_from_pdf"
      [] suffix = ".docx" -> "extract_text_from_docx"
      [] suffix = ".txt" -> "extract_text_from_txt"
      [] OTHER -> None

Extracted(suffix, bytes) ==
    CASE suffix = ".pdf" -> extract_text_from_pdf(bytes)
      [] suffix = ".docx" -> extract_text_from_docx(bytes)
      [] suffix = ".txt" -> extract_text_from_txt(bytes)

\* os.remove(tmp_path) is reached only when the extractor returned
TmpRemoved(extracted) == extracted # Raises

\* download_and_extract_text(url, content_type); resp is the HTTP response
download_and_extract_text(resp, content_type) ==
    LET suffix == Suffix(content_type) IN
    IF resp.status # HTTP_OK
    THEN [raised |-> TRUE,
          error |-> <<"Download failed with status ", ToString(resp.status)>>,
          text |-> None, tmp_created |-> FALSE, tmp_removed |-> FALSE,
          extractor |-> None]
    ELSE IF suffix = None
    THEN [raised |-> TRUE, error |-> <<"Unsupported file type">>,
          text |-> None, tmp_created |-> FALSE, tmp_removed |-> FALSE,
          extractor |-> None]
    ELSE LET text == Extracted(suffix, resp.bytes) IN
         [raised |-> text = Raises,
          error |-> IF text = Raises THEN <<Extractor(suffix), " failed">>
                    ELSE <<>>,
          text |-> IF text = Raises THEN None ELSE text,
          tmp_created |-> TRUE,
          tmp_removed |-> TmpRemoved(text),
          extractor |-> Extractor(suffix)]

(* ------------------------ conversation state -------------------------- *)

\* nothing stored under the conversation's key
Absent == "<absent>"
\* conversation_data without the key "last_uploaded_text"
NoKey == "<no key>"

\* prop.get(turn_context, lambda: {}): the stored conversation_data, or {}
Load(mem, c) == IF mem[c] = Absent THEN NoKey ELSE mem[c]

\* A change of conversation_data in a turn that ends without save_changes:
\* it reaches the storage only through an object the storage itself handed out.
Unsaved(mem, c, data, aliases) ==
    IF mem[c] # Absent /\ aliases THEN [mem EXCEPT ![c] = data] ELSE mem

\* conversation_state.save_changes(turn_context)
save_changes(mem, c, data) == [mem EXCEPT ![c] = data]

PopKept(data) == data

\* conversation_data.pop("last_uploaded_text", None)
Pop(data) == NoKey

(* ----------------------------- agent chat ----------------------------- *)

NoChat == [initialized |-> FALSE, agents |-> <<>>, maximum_iterations |-> 0]

GroupChat ==
    [initialized |-> TRUE,
     agents |-> <<"question-agent", "answer-agent">>,
     maximum_iterations |-> maximum_iterations]

\* statements of initialize_agents' try block that can raise
InitSteps == 10

\* initialize_agents: agent_chat is assigned by the last statement only
initialize_agents(fail_at) == IF fail_at = 0 THEN GroupChat ELSE NoChat

\* what an agent may answer when it is its turn
ResponseKinds == {"text", "sentinel", "empty", Raises}

Content(kind) ==
    CASE kind = "text" -> "Which part do you mean?"
      [] kind = "sentinel" -> "That is all. TERMINATE"
      [] OTHER -> ""

Min(a, b) == IF a < b THEN a ELSE b

AgentError == <<"agent service unavailable">>

\* DefaultTerminationStrategy: no message makes the chat complete
should_agent_terminate(msg) == FALSE

IterationsUncapped(chat, stream) == Len(stream)

\* for _ in range(termination_strategy.maximum_iterations)
Iterations(chat, stream) == Min(chat.maximum_iterations, Len(stream))

RECURSIVE Run(_, _, _, _)
\* iterations i..n of the group chat: the agents take turns; a response that
\* raises ends the run with the exception, a message the termination
\* strategy accepts ends it after that message
Run(chat, stream, i, n) ==
    IF i > n THEN [yielded |-> <<>>, raised |-> FALSE]
    ELSE IF stream[i] = Raises THEN [yielded |-> <<>>, raised |-> TRUE]
    ELSE LET msg == [name |-> chat.agents[((i - 1) % Len(chat.agents)) + 1],
                     kind |-> stream[i],
                     content |-> Content(stream[i])]
             rest == IF should_agent_terminate(msg)
                     THEN [yielded |-> <<>>, raised |-> FALSE]
                     ELSE Run(chat, stream, i + 1, n)
         IN [yielded |-> <<msg>> \o rest.yielded, raised |-> rest.raised]

\* agent_chat.invoke(...): the messages yielded, and whether it raised
invoke(chat, stream) ==
    LET run == Run(chat, stream, 1, Iterations(chat, stream))
    IN [yielded |-> run.yielded,
        raised |-> run.raised,
        error |-> IF run.raised THEN AgentError ELSE <<>>]

\* "if msg:"
IsMsg(msg) == msg.kind # "empty"

RECURSIVE Transcript(_)
\* transcript.append(f"{msg.name}: {msg.content}") for every msg that is kept
Transcript(yielded) ==
    IF yielded = <<>> THEN <<>>
    ELSE (IF IsMsg(Head(yielded))
          THEN << <<Head(yielded).name, ": ", Head(yielded).content>> >>
          ELSE <<>>) \o Transcript(Tail(yielded))

RECURSIVE Join(_)
\* "\n".join(transcript)
Join(lines) ==
    IF lines = <<>> THEN <<>>
    ELSE IF Len(lines) = 1 THEN lines[1]
    ELSE lines[1] \o <<"\n">> \o Join(Tail(lines))

(* --------------------------- message handler -------------------------- *)

DocumentReceived ==
    <<"Document received. You can now ask me what you want to do with it!">>

NotInitialized == <<"Agent system not initialized.">>

Greeting ==
    <<"Hi! I'm HephAIstus - your AI assistant for this hackathon project. Upload a document or ask me anything to get started!">>

DocumentHeader == "\n\nHere is the document content:\n"

\* a download that did not take place
NoDownload ==
    [raised |-> FALSE, error |-> <<>>, text |-> None, tmp_created |-> FALSE,
     tmp_removed |-> FALSE, extractor |-> None]

\* the outcome of a turn in which nothing has happened yet
Quiet(mem) ==
    [branch |-> "none", memory |-> mem, replies |-> <<>>, raised |-> FALSE,
     error |-> <<>>, invoked |-> FALSE, prompt |-> <<>>, yielded |-> <<>>,
     agent_raised |-> FALSE, dl |-> NoDownload]

\* truthiness of activity.text
HasText(activity) == activity.text # None /\ activity.text # ""

AgentReadyAlways(chat) == TRUE

\* "agent_chat is None" does not hold
AgentReady(chat) == chat.initialized

\* initial_prompt: the user's text, then the stored document when there is one
InitialPrompt(user_input, conversation_data) ==
    IF conversation_data # NoKey
    THEN <<user_input, DocumentHeader, conversation_data>>
    ELSE <<user_input>>

FinalResponseBoth(run) ==
    (IF run.raised THEN <<"Agent chat error: ">> \o run.error ELSE <<>>)
    \o Join(Transcript(run.yielded))

\* final_response of the agent branch
FinalResponse(run) ==
    IF run.raised THEN <<"Agent chat error: ">> \o run.error
    ELSE Join(Transcript(run.yielded))

FileErrorSilent(dl) == <<>>

\* the replies of the upload branch's except clause
FileError(dl) == << <<"Error processing file: ">> \o dl.error >>

\* one send_activity per added member that is not the recipient (the bot)
Greetings(activity) ==
    LET new == SelectSeq(activity.members_added,
                         LAMBDA id : id # activity.recipient)
    IN [i \in 1..Len(new) |-> Greeting]

BranchTextFirst(activity) ==
    IF activity.type = "message" /\ HasText(activity) THEN "text"
    ELSE IF activity.attachments # <<>> THEN "upload"
    ELSE IF activity.type = "conversationUpdate" THEN "conversationUpdate"
    ELSE "none"

\* the if / elif / elif chain of on_message_activity
Branch(activity) ==
    IF activity.attachments # <<>> THEN "upload"
    ELSE IF activity.type = "message" /\ HasText(activity) THEN "text"
    ELSE IF activity.type = "conversationUpdate" THEN "conversationUpdate"
    ELSE "none"

\* on_message_activity(turn_context); env is what the outside world answers
on_message_activity(activity, mem, chat, aliases, env) ==
    LET c == activity.conversation
        conversation_data == Load(mem, c)
        branch == Branch(activity)
    IN
    CASE branch = "upload" ->
            LET attachment == activity.attachments[1]
                dl == download_and_extract_text(env.resp,
                                                attachment.content_type)
            IN IF ~dl.raised
               THEN [Quiet(mem) EXCEPT
                        !.branch = "upload",
                        !.memory = Unsaved(mem, c, dl.text, aliases),
                        !.replies = <<DocumentReceived>>,
                        !.dl = dl]
               ELSE [Quiet(mem) EXCEPT
                        !.branch = "upload",
                        !.replies = FileError(dl),
                        !.dl = dl]
      [] branch = "text" ->
            IF ~AgentReady(chat)
            THEN [Quiet(mem) EXCEPT
                    !.branch = "uninitialized",
                    !.replies = <<NotInitialized>>]
            ELSE LET initial_prompt ==
                        InitialPrompt(activity.text, conversation_data)
                     run == IF chat.initialized
                            THEN invoke(chat, env.stream)
                            ELSE [yielded |-> <<>>, raised |-> TRUE,
                                  error |-> <<"'NoneType' object has no attribute 'invoke'">>]
                 IN [Quiet(mem) EXCEPT
                        !.branch = "agent",
                        !.invoked = TRUE,
                        !.prompt = initial_prompt,
                        !.yielded = run.yielded,
                        !.agent_raised = run.raised,
                        !.replies = <<FinalResponse(run)>>,
                        !.memory = save_changes(mem, c, Pop(conversation_data))]
      [] branch = "conversationUpdate" ->
            IF ~activity.has_members_added
            THEN [Quiet(mem) EXCEPT
                    !.branch = "conversationUpdate",
                    !.raised = TRUE,
                    !.error = <<"'NoneType' object is not iterable">>]
            ELSE [Quiet(mem) EXCEPT
                    !.branch = "conversationUpdate",
                    !.replies = Greetings(activity),
                    !.memory = save_changes(mem, c, conversation_data)]
      [] OTHER ->
            [Quiet(mem) EXCEPT
                !.memory = save_changes(mem, c, conversation_data)]

\* what a request's observer sees of a turn: everything but the storage
Observed(turn) ==
    [branch |-> turn.branch, replies |-> turn.replies, raised |-> turn.raised,
     error |-> turn.error, invoked |-> turn.invoked, prompt |-> turn.prompt,
     yielded |-> turn.yielded, agent_raised |-> turn.agent_raised,
     dl |-> turn.dl]

(* ------------------------------ endpoint ------------------------------ *)

\* where the endpoint's try block can raise before the handler runs
Faults == {"none", "json", "deserialize", "adapter"}

FaultText(fault) ==
    CASE fault = "json" -> "Expecting value: line 1 column 1 (char 0)"
      [] fault = "deserialize" -> "Unable to deserialize to object"
      [] fault = "adapter" -> "Unauthorized Access. Request is not authorized"
      [] OTHER -> ""

StatusAlwaysOk(raised) == HTTP_OK

\* Response(status_code=200) or Response(..., status_code=500)
Status(raised) == IF raised THEN HTTP_ERROR ELSE HTTP_OK

\* messages(req): the POST /api/messages endpoint
messages(req, mem, chat, aliases) ==
    IF req.fault # "none"
    THEN [handled |-> FALSE,
          turn |-> Quiet(mem),
          status |-> Status(TRUE),
          body |-> <<"Error: ", FaultText(req.fault)>>]
    ELSE LET turn == on_message_activity(req.activity, mem, chat, aliases,
                                         req.env)
         IN [handled |-> TRUE,
             turn |-> turn,
             status |-> Status(turn.raised),
             body |-> IF turn.raised THEN <<"Error: ">> \o turn.error
                      ELSE <<>>]

(* ------------------------------- inputs ------------------------------- *)

Attachment(content_type) ==
    [content_type |-> content_type, content_url |-> "https://files/upload"]

ContentTypes == {PDF, DOCX, TXT, "image/png", None}

\* one attachment of every content type, and a list of two
AttachmentLists ==
    {<<Attachment(ct)>> : ct \in ContentTypes}
    \cup {<<Attachment(TXT), Attachment(PDF)>>}

MemberLists == UNION {[1..n -> {BotId, UserId}] : n \in 0..MaxMembers}

Activity(type, text, attachments, has_members_added, members_added, c) ==
    [type |-> type, text |-> text, attachments |-> attachments,
     has_members_added |-> has_members_added,
     members_added |-> members_added,
     recipient |-> BotId, conversation |-> c]

Message(text, attachments, c) ==
    Activity("message", text, attachments, FALSE, <<>>, c)

ConversationUpdate(text, attachments, members_added, c) ==
    Activity("conversationUpdate", text, attachments, TRUE, members_added, c)

\* a conversationUpdate that only removes members: members_added is None
MembersRemoved(c) == Activity("conversationUpdate", None, <<>>, FALSE, <<>>, c)

Typing(text, c) == Activity("typing", text, <<>>, FALSE, <<>>, c)

NoActivity == Activity(None, None, <<>>, FALSE, <<>>, None)

NoBytes == [pdf |-> None, docx |-> None, txt |-> None]
NoResponse == [status |-> 0, bytes |-> NoBytes]
NoStream == <<>>
NoEnv == [resp |-> NoResponse, stream |-> NoStream]

Bytes ==
    [pdf : {"pdf text", Raises}, docx : {"docx text", Raises},
     txt : {"txt text", Raises}]

Responses == [status : {HTTP_OK, 404}, bytes : Bytes]

\* the responses of MaxStream iterations; what would follow a response that
\* raises is never asked for, so it is fixed
Streams ==
    {s \in [1..MaxStream -> ResponseKinds] :
        \A i, j \in 1..MaxStream :
            (i < j /\ s[i] = Raises) => s[j] = "text"}

\* what the outside world is asked for in a turn of this activity
Envs(activity, responses, streams) ==
    CASE Branch(activity) = "upload" -> [resp : responses, stream : {NoStream}]
      [] Branch(activity) = "text" -> [resp : {NoResponse}, stream : streams]
      [] OTHER -> {NoEnv}

\* requests whose activity reaches the handler
Requests(activities, responses, streams) ==
    UNION {[fault : {"none"}, activity : {a},
            env : Envs(a, responses, streams)] : a \in activities}

\* requests that fail in the endpoint before the handler runs
FaultyRequests(activities) ==
    [fault : Faults \ {"none"}, activity : activities, env : {NoEnv}]

(* --------------------------- state machine ---------------------------- *)

NoBefore == [stored |-> Absent, uploaded |-> NoKey, consumed |-> "no"]

NoRequest ==
    [seen |-> FALSE, fault |-> "none", activity |-> NoActivity,
     resp |-> NoResponse, before |-> NoBefore, handled |-> FALSE,
     turn |-> Observed(Quiet(<<>>)), status |-> 0, body |-> <<>>]

InitOver(conversations) ==
    /\ startup = "pending"
    /\ agent_chat = NoChat
    /\ read_aliases \in BOOLEAN
    /\ memory = [c \in conversations |-> Absent]
    /\ tmp_files = 0
    /\ uploaded = [c \in conversations |-> NoKey]
    /\ consumed = [c \in conversations |-> "no"]
    /\ last = NoRequest

\* the startup event: initialize_agents runs once, before any request
Startup ==
    /\ startup = "pending"
    /\ \E fail_at \in 0..InitSteps :
          /\ agent_chat' = initialize_agents(fail_at)
          /\ startup' = IF fail_at = 0 THEN "done" ELSE "failed"
    /\ UNCHANGED <<read_aliases, memory, tmp_files, uploaded, consumed, last>>

\* temp files a turn leaves on disk
Leaked(turn) == IF turn.dl.tmp_created /\ ~turn.dl.tmp_removed THEN 1 ELSE 0

\* one POST /api/messages, from the request to the response
Serve(req) ==
    LET c == req.activity.conversation
        out == messages(req, memory, agent_chat, read_aliases)
        turn == out.turn
        stored_doc == turn.branch = "upload" /\ ~turn.dl.raised
        answered == turn.branch = "agent"
    IN /\ startup # "pending"
       /\ tmp_files + Leaked(turn) <= MaxTmpFiles
       /\ memory' = turn.memory
       /\ tmp_files' = tmp_files + Leaked(turn)
       /\ uploaded' = IF stored_doc THEN [uploaded EXCEPT ![c] = turn.dl.text]
                      ELSE IF answered THEN [uploaded EXCEPT ![c] = NoKey]
                      ELSE uploaded
       /\ consumed' = IF stored_doc THEN [consumed EXCEPT ![c] = "no"]
                      ELSE IF answered
                      THEN [consumed EXCEPT ![c] =
                                IF Load(memory, c) # NoKey THEN "popped"
                                ELSE "clean"]
                      ELSE consumed
       /\ last' = [seen |-> TRUE, fault |-> req.fault,
                   activity |-> req.activity, resp |-> req.env.resp,
                   before |-> IF out.handled
                              THEN [stored |-> memory[c],
                                    uploaded |-> uploaded[c],
                                    consumed |-> consumed[c]]
                              ELSE NoBefore,
                   handled |-> out.handled, turn |-> Observed(turn),
                   status |-> out.status, body |-> out.body]
       /\ UNCHANGED <<startup, agent_chat, read_aliases>>

(* Spec: conversations over several turns.  Two conversations; uploads of  *)
(* a text file, text messages, typing and membership events.               *)

Conversations == {"conv-a", "conv-b"}

Init == InitOver(Conversations)

TurnActivities ==
    UNION {{Message("hello", <<>>, c),
            Message(None, <<Attachment(TXT)>>, c),
            Message("hello", <<Attachment(TXT)>>, c),
            Typing(None, c),
            ConversationUpdate(None, <<>>, <<BotId, UserId>>, c)} :
              c \in Conversations}

TurnResponses ==
    {[status |-> HTTP_OK,
      bytes |-> [pdf |-> "pdf text", docx |-> "docx text", txt |-> "txt text"]],
     [status |-> HTTP_OK,
      bytes |-> [pdf |-> Raises, docx |-> Raises, txt |-> Raises]],
     [status |-> 404,
      bytes |-> [pdf |-> "pdf text", docx |-> "docx text", txt |-> "txt text"]]}

TurnStreams ==
    {[i \in 1..MaxStream |-> "text"],
     [i \in 1..MaxStream |-> IF i = 3 THEN Raises ELSE "text"]}

Request ==
    \E req \in Requests(TurnActivities, TurnResponses, TurnStreams)
                \cup FaultyRequests({NoActivity}) : Serve(req)

Next == Startup \/ Request

Spec == Init /\ [][Next]_vars

(* ------------------------- claims under Spec -------------------------- *)

\* the last request was a text message that the agent branch answered
Answered == last.handled /\ last.turn.branch = "agent"

\* C1 (as claimed): when a successful upload ("Document received...") is
\* followed by a text message in the same conversation, the prompt given to
\* the agent chat is the user's text followed by the extracted text.
C1_UploadReachesPrompt ==
    (Answered /\ last.before.uploaded # NoKey)
        => last.turn.prompt =
              <<last.activity.text, DocumentHeader, last.before.uploaded>>

\* C7: once the agent branch has answered a text message, the stored
\* conversation data holds no last_uploaded_text (removed and saved), and a
\* later text message with no upload in between is prompted with the user's
\* text alone.
C7_ConsumedOnce ==
    Answered =>
        /\ memory[last.activity.conversation] = NoKey
        /\ (last.before.consumed # "no"
               => last.turn.prompt = <<last.activity.text>>)

\* a text message answered after an earlier answer consumed a document
C7_Witness ==
    /\ Answered
    /\ last.before.consumed = "popped"
    /\ last.turn.prompt = <<last.activity.text>>

\* C8: agent_chat is None or the complete group chat, None whenever startup
\* failed; with agent_chat None a text message gets exactly the reply
\* "Agent system not initialized.", the agent chat is not invoked and the
\* stored conversation state is what it was.
C8_NotInitialized ==
    /\ agent_chat \in {NoChat, GroupChat}
    /\ startup = "failed" => agent_chat = NoChat
    /\ startup = "done" => agent_chat = GroupChat
    /\ (/\ last.handled
        /\ ~agent_chat.initialized
        /\ last.activity.attachments = <<>>
        /\ last.activity.type = "message"
        /\ HasText(last.activity))
           => /\ last.turn.replies = <<NotInitialized>>
              /\ ~last.turn.invoked
              /\ ~last.turn.raised
              /\ memory[last.activity.conversation] = last.before.stored

\* startup failed and a text message arrived while a document was stored
C8_Witness ==
    /\ startup = "failed"
    /\ last.handled
    /\ last.turn.branch = "uninitialized"
    /\ last.before.stored = "txt text"
    /\ memory[last.activity.conversation] = "txt text"

(* SpecExtract: uploads of every content type against every download      *)
(* outcome, in one conversation; a typing event makes the storage hold     *)
(* the conversation.                                                       *)

OneConversation == {"conv-a"}

InitOne == InitOver(OneConversation)

UploadActivities ==
    {Message(None, al, "conv-a") : al \in AttachmentLists}
    \cup {Typing(None, "conv-a")}

RequestUpload ==
    \E req \in Requests(UploadActivities, Responses, {NoStream}) : Serve(req)

NextExtract == Startup \/ RequestUpload

SpecExtract == InitOne /\ [][NextExtract]_vars

\* the last request was an activity with attachments that reached the handler
Uploading == last.handled /\ last.activity.attachments # <<>>

UploadType == last.activity.attachments[1].content_type

\* the failures of download_and_extract_text, told from its inputs
UploadFails ==
    \/ last.resp.status # HTTP_OK
    \/ UploadType \notin {PDF, DOCX, TXT}
    \/ UploadType = PDF /\ last.resp.bytes.pdf = Raises
    \/ UploadType = DOCX /\ last.resp.bytes.docx = Raises
    \/ UploadType = TXT /\ last.resp.bytes.txt = Raises

\* C2: a failing download_and_extract_text gives exactly one reply, "Error
\* processing file: <error>"; "Document received" is not sent, the stored
\* last_uploaded_text is unchanged and nothing propagates out of the handler.
C2_FileErrorCaught ==
    (Uploading /\ UploadFails) =>
        /\ Len(last.turn.replies) = 1
        /\ Len(last.turn.replies[1]) >= 2
        /\ last.turn.replies[1][1] = "Error processing file: "
        /\ Tail(last.turn.replies[1]) = last.turn.dl.error
        /\ last.turn.replies[1] # DocumentReceived
        /\ ~last.turn.raised
        /\ last.status = HTTP_OK
        /\ memory[last.activity.conversation] = last.before.stored
        /\ uploaded[last.activity.conversation] = last.before.uploaded

\* an extractor raised while an earlier document was stored
C2_Witness ==
    /\ Uploading
    /\ last.resp.status = HTTP_OK
    /\ UploadType = PDF
    /\ last.resp.bytes.pdf = Raises
    /\ last.before.stored = "docx text"
    /\ memory[last.activity.conversation] = "docx text"

\* C5: the content type selects the extractor through the fixed table and the
\* text returned is that extractor's; any other content type raises
\* "Unsupported file type" with no temp file and no extractor; a non-200
\* status raises "Download failed" whatever the content type.
C5_DispatchTable ==
    Uploading =>
        LET dl == last.turn.dl
            bytes == last.resp.bytes
        IN IF last.resp.status # HTTP_OK
           THEN /\ dl.raised
                /\ dl.error = <<"Download failed with status ",
                                ToString(last.resp.status)>>
                /\ ~dl.tmp_created
                /\ dl.extractor = None
           ELSE CASE UploadType = PDF ->
                        /\ dl.extractor = "extract_text_from_pdf"
                        /\ dl.tmp_created
                        /\ dl.raised = (bytes.pdf = Raises)
                        /\ ~dl.raised => dl.text = bytes.pdf
                  [] UploadType = DOCX ->
                        /\ dl.extractor = "extract_text_from_docx"
                        /\ dl.tmp_created
                        /\ dl.raised = (bytes.docx = Raises)
                        /\ ~dl.raised => dl.text = bytes.docx
                  [] UploadType = TXT ->
                        /\ dl.extractor = "extract_text_from_txt"
                        /\ dl.tmp_created
                        /\ dl.raised = (bytes.txt = Raises)
                        /\ ~dl.raised => dl.text = bytes.txt
                  [] OTHER ->
                        /\ dl.raised
                        /\ dl.error = <<"Unsupported file type">>
                        /\ ~dl.tmp_created
                        /\ dl.extractor = None

\* a DOCX upload whose text came back while the PDF extractor would have failed
C5_Witness ==
    /\ Uploading
    /\ last.resp.status = HTTP_OK
    /\ UploadType = DOCX
    /\ last.resp.bytes.pdf = Raises
    /\ last.turn.dl.text = "docx text"
    /\ last.turn.replies = <<DocumentReceived>>

\* C6 (as claimed): no temp file is left on disk once
\* download_and_extract_text has finished, whether it returned or raised.
C6_NoTempFileLeft == tmp_files = 0

(* SpecAgent: text messages in one conversation against every stream of    *)
(* agent responses.                                                        *)

ChatActivities == {Message("hello", <<>>, "conv-a")}

RequestChat ==
    \E req \in Requests(ChatActivities, {NoResponse}, Streams) : Serve(req)

NextAgent == Startup \/ RequestChat

SpecAgent == InitOne /\ [][NextAgent]_vars

\* the agent messages of the last turn that are not empty, in order
Kept == SelectSeq(last.turn.yielded, LAMBDA msg : msg.kind # "empty")

\* text is the lines "<name>: <content>" of msgs with "\n" between them
IsTranscriptOf(text, msgs) ==
    /\ Len(text) = IF msgs = <<>> THEN 0 ELSE 4 * Len(msgs) - 1
    /\ \A i \in 1..Len(msgs) :
          /\ text[4 * i - 3] = msgs[i].name
          /\ text[4 * i - 2] = ": "
          /\ text[4 * i - 1] = msgs[i].content
          /\ i < Len(msgs) => text[4 * i] = "\n"

\* C3: a text message with agent_chat initialized gets exactly one reply: the
\* newline-joined "<name>: <content>" lines of the non-empty agent messages
\* in the order yielded, or, if the agent chat raised, "Agent chat error:
\* <error>" alone.
C3_OneReply ==
    (/\ last.handled
     /\ agent_chat.initialized
     /\ last.activity.attachments = <<>>
     /\ last.activity.type = "message"
     /\ HasText(last.activity))
        => /\ Len(last.turn.replies) = 1
           /\ ~last.turn.raised
           /\ IF last.turn.agent_raised
              THEN last.turn.replies[1] = <<"Agent chat error: ">> \o AgentError
              ELSE IsTranscriptOf(last.turn.replies[1], Kept)

\* the agent chat raised after two messages had been collected
C3_Witness ==
    /\ Answered
    /\ last.turn.agent_raised
    /\ Len(Kept) = 2
    /\ last.turn.replies = << <<"Agent chat error: ">> \o AgentError >>

DispatchActivities ==
    {Message(text, al, "conv-a") :
        text \in {None, "", "hello"},
        al \in {<<>>, <<Attachment(TXT)>>, <<Attachment("image/png")>>}}
    \cup {ConversationUpdate(text, al, members, "conv-a") :
            text \in {None, "hello"},
            al \in {<<>>, <<Attachment(TXT)>>},
            members \in MemberLists}
    \cup {MembersRemoved("conv-a")}
    \cup {Typing(text, "conv-a") : text \in {None, "hello"}}

RequestAny ==
    \E req \in Requests(DispatchActivities, TurnResponses, TurnStreams)
                \cup FaultyRequests({NoActivity}) : Serve(req)

NextDispatch == Startup \/ RequestAny

SpecDispatch == InitOne /\ [][NextDispatch]_vars

\* the handler raises: a conversationUpdate that adds no members
HandlerRaises ==
    /\ last.activity.attachments = <<>>
    /\ last.activity.type = "conversationUpdate"
    /\ ~last.activity.has_members_added

\* C9: the endpoint answers 200 exactly when parsing, deserialization and
\* adapter processing, the handler included, did not raise, and otherwise
\* 500 with the body "Error: <exception text>"; a file or agent failure that
\* the handler turned into a reply still gives 200.
C9_StatusCodes ==
    last.seen =>
        /\ last.status \in {HTTP_OK, HTTP_ERROR}
        /\ last.status = HTTP_OK <=> (last.fault = "none" /\ ~HandlerRaises)
        /\ last.status = HTTP_OK => last.body = <<>>
        /\ last.status = HTTP_ERROR =>
              /\ Len(last.body) = 2
              /\ last.body[1] = "Error: "
              /\ last.body[2] = IF last.fault # "none"
                                THEN FaultText(last.fault)
                                ELSE "'NoneType' object is not iterable"
        /\ (last.turn.dl.raised \/ last.turn.agent_raised)
              => last.status = HTTP_OK

\* the agent chat raised inside the handler and the endpoint answered 200
C9_Witness ==
    /\ Answered
    /\ last.turn.agent_raised
    /\ last.status = HTTP_OK

\* the members the bot greets: those added whose id is not the recipient's
Greeted ==
    {i \in 1..Len(last.activity.members_added) :
        last.activity.members_added[i] # last.activity.recipient}

\* C10: one branch at most, tried in the order attachments, text message,
\* conversationUpdate: an activity with attachments is an upload only and its
\* text never reaches the agent chat; a conversationUpdate without
\* attachments or text sends one greeting per added member other than the
\* bot; an activity that matches no branch sends no reply.
C10_OneBranch ==
    last.handled =>
        LET a == last.activity
            t == last.turn
        IN /\ a.attachments # <<>> =>
                /\ t.branch = "upload"
                /\ ~t.invoked
                /\ t.prompt = <<>>
                /\ Len(t.replies) = 1
                /\ t.replies[1] # Greeting
           /\ (a.attachments = <<>> /\ a.type = "message" /\ HasText(a)) =>
                /\ t.branch \in {"agent", "uninitialized"}
                /\ t.dl = NoDownload
                /\ Len(t.replies) = 1
           /\ (a.attachments = <<>> /\ a.type = "conversationUpdate"
                  /\ ~HasText(a)) =>
                /\ t.branch = "conversationUpdate"
                /\ ~t.invoked
                /\ t.dl = NoDownload
                /\ Len(t.replies) = Cardinality(Greeted)
                /\ \A i \in 1..Len(t.replies) : t.replies[i] = Greeting
           /\ (a.attachments = <<>> /\ a.type # "conversationUpdate"
                  /\ ~(a.type = "message" /\ HasText(a))) =>
                /\ t.branch = "none"
                /\ t.replies = <<>>
                /\ ~t.invoked
                /\ t.dl = NoDownload

\* a message with both text and an attachment, agents ready: an upload only
C10_Witness ==
    /\ last.handled
    /\ agent_chat.initialized
    /\ last.activity.type = "message"
    /\ HasText(last.activity)
    /\ last.activity.attachments # <<>>
    /\ last.turn.branch = "upload"
    /\ ~last.turn.invoked

====
